---- MODULE Spec2Model ----
(***************************************************************************)
(* Word search generator (src/src/generateWordsOnBoard.js).                *)
(*                                                                         *)
(* generateWordsOnBoard validates its inputs, creates an empty board and   *)
(* feeds every word through placeWordOnBoard, a bounded random retry loop  *)
(* over the candidate placements of the enabled shapes.  Math.random is    *)
(* modelled as nondeterministic choice.  Rows, columns and letter indices  *)
(* are 0-based as in the source; a word is a sequence of one-letter        *)
(* strings, so the letter at JS index i of a word w is w[i + 1].           *)
(***************************************************************************)
EXTENDS Integers, Sequences, FiniteSets, TLC

VARIABLES
  input,       \* the arguments of the call: boardSize, words, alignment
  pc,          \* where generateWordsOnBoard stands
  created,     \* createEmptyBoard has run
  board,       \* the board, a function from <<row, col>> to "" or a letter
  wordIdx,     \* 1-based index of the word the for-of loop is at
  attempts,    \* placeWordOnBoard: the loop counter
  draws,       \* placeWordOnBoard: candidates drawn by line 89 so far
  placements,  \* placeWordOnBoard: the candidate list of line 82
  last,        \* what the latest step of placeWordOnBoard did
  results      \* one placementResult per word attempted so far

vars ==
  <<input, pc, created, board, wordIdx, attempts, draws, placements, last, results>>

----------------------------------------------------------------------------
(* Bounds of the model.                                                    *)

(* Placement runs: board sizes; every run: the length of the word list.    *)
MaxWidth == 2
MaxHeight == 2
MaxWords == 2

(* Argument runs: the sizes reach from -1 up to these.                      *)
MaxArgWidth == 3
MaxArgHeight == 2

(* Enumerator runs: larger boards and longer words, no board contents.      *)
MaxEnumWidth == 4
MaxEnumHeight == 4
MaxEnumLength == 6

(* Words the word lists of the placement runs are drawn from.              *)
WordPool ==
  { <<"A", "B">>, <<"B", "A">>, <<"A", "B", "A">> }

(* Shape sets of the placement runs: every single shape, and all of them.  *)
LineSets == { {x} : x \in {"horizontal", "vertical", "diagonal", "bendsStraight",
                           "bendsDiagonal", "block"} }
            \cup {{"horizontal", "vertical", "diagonal", "bendsStraight",
                   "bendsDiagonal", "block"}}

Shapes ==
  {"horizontal", "vertical", "diagonal", "bendsStraight", "bendsDiagonal", "block"}

Directions == {"forward", "backward", "forwardBackward", "scatter"}

----------------------------------------------------------------------------
(* JavaScript values that validateInputs inspects with typeof / truthiness *)

Num(n) == [t |-> "number", n |-> n]
NotANumber == [t |-> "string", n |-> 0]
Str(s) == [t |-> "string", s |-> s]
NotAString == [t |-> "undefined", s |-> ""]

typeof(v) == v.t

----------------------------------------------------------------------------
(* Shape enumerator                                                        *)

Range(s) == {s[i] : i \in DOMAIN s}

(* Variant: the letter index runs against the column.                      *)
generateHorizontalPlacementsReversed(word, boardSize) ==
  { [type |-> "horizontal",
     positions |-> [k \in 1..Len(word) |-> <<row, col + (Len(word) - k)>>]] :
      row \in 0..(boardSize.height - 1),
      col \in 0..(boardSize.width - Len(word)) }

generateHorizontalPlacements(word, boardSize) ==
  { [type |-> "horizontal",
     positions |-> [k \in 1..Len(word) |-> <<row, col + (k - 1)>>]] :
      row \in 0..(boardSize.height - 1),
      col \in 0..(boardSize.width - Len(word)) }

generateVerticalPlacements(word, boardSize) ==
  { [type |-> "vertical",
     positions |-> [k \in 1..Len(word) |-> <<row + (k - 1), col>>]] :
      row \in 0..(boardSize.height - Len(word)),
      col \in 0..(boardSize.width - 1) }

(* Variant: the ascending family starts one column too far left.           *)
generateDiagonalPlacementsEarlyStart(word, boardSize) ==
  { [type |-> "diagonal-down",
     positions |-> [k \in 1..Len(word) |-> <<row + (k - 1), col + (k - 1)>>]] :
      row \in 0..(boardSize.height - Len(word)),
      col \in 0..(boardSize.width - Len(word)) }
  \cup
  { [type |-> "diagonal-up",
     positions |-> [k \in 1..Len(word) |-> <<row + (k - 1), col - (k - 1)>>]] :
      row \in 0..(boardSize.height - Len(word)),
      col \in (Len(word) - 2)..(boardSize.width - 1) }

generateDiagonalPlacements(word, boardSize) ==
  { [type |-> "diagonal-down",
     positions |-> [k \in 1..Len(word) |-> <<row + (k - 1), col + (k - 1)>>]] :
      row \in 0..(boardSize.height - Len(word)),
      col \in 0..(boardSize.width - Len(word)) }
  \cup
  { [type |-> "diagonal-up",
     positions |-> [k \in 1..Len(word) |-> <<row + (k - 1), col - (k - 1)>>]] :
      row \in 0..(boardSize.height - Len(word)),
      col \in (Len(word) - 1)..(boardSize.width - 1) }

(* Positions of the two L orientations; i = k - 1 is the JS letter index.  *)
BendHVPositions(startRow, startCol, bendPoint, length) ==
  [k \in 1..length |->
     IF k - 1 < bendPoint
       THEN <<startRow, startCol + (k - 1)>>
       ELSE <<startRow + ((k - 1) - bendPoint + 1), startCol + bendPoint - 1>>]

BendVHPositions(startRow, startCol, bendPoint, length) ==
  [k \in 1..length |->
     IF k - 1 < bendPoint
       THEN <<startRow + (k - 1), startCol>>
       ELSE <<startRow + bendPoint - 1, startCol + ((k - 1) - bendPoint + 1)>>]

BendHVGuard(startRow, startCol, bendPoint, length, boardSize) ==
  /\ startCol + bendPoint < boardSize.width
  /\ startRow + (length - bendPoint) < boardSize.height

BendVHGuard(startRow, startCol, bendPoint, length, boardSize) ==
  /\ startRow + bendPoint < boardSize.height
  /\ startCol + (length - bendPoint) < boardSize.width

generateBendStraightPlacements(word, boardSize) ==
  { [type |-> "bend-straight-hv",
     positions |-> BendHVPositions(startRow, startCol, bendPoint, Len(word))] :
      <<startRow, startCol, bendPoint>> \in
        { t \in (0..(boardSize.height - 1)) \X (0..(boardSize.width - 1))
                  \X (1..(Len(word) - 1)) :
            BendHVGuard(t[1], t[2], t[3], Len(word), boardSize) } }
  \cup
  { [type |-> "bend-straight-vh",
     positions |-> BendVHPositions(startRow, startCol, bendPoint, Len(word))] :
      <<startRow, startCol, bendPoint>> \in
        { t \in (0..(boardSize.height - 1)) \X (0..(boardSize.width - 1))
                  \X (1..(Len(word) - 1)) :
            BendVHGuard(t[1], t[2], t[3], Len(word), boardSize) } }

isValidDiagonalBend(startRow, startCol, bendPoint, wordLength, boardSize) ==
  /\ startRow >= 0
  /\ startCol >= 0
  /\ startRow < boardSize.height
  /\ startCol < boardSize.width

generateDiagonalBendPositions(startRow, startCol, bendPoint, wordLength) ==
  << <<startRow, startCol>> >>

isValidPosition(pos, boardSize) ==
  /\ pos[1] >= 0
  /\ pos[1] < boardSize.height
  /\ pos[2] >= 0
  /\ pos[2] < boardSize.width

generateBendDiagonalPlacements(word, boardSize) ==
  { [type |-> "bend-diagonal-down-up",
     positions |->
       generateDiagonalBendPositions(startRow, startCol, bendPoint, Len(word))] :
      <<startRow, startCol, bendPoint>> \in
        { t \in (0..(boardSize.height - 1)) \X (0..(boardSize.width - 1))
                  \X (1..(Len(word) - 1)) :
            /\ isValidDiagonalBend(t[1], t[2], t[3], Len(word), boardSize)
            /\ \A pos \in Range(generateDiagonalBendPositions(t[1], t[2], t[3], Len(word))) :
                 isValidPosition(pos, boardSize) } }

getValidBlockDimensions(wordLength) ==
  (IF wordLength = 4 THEN {[width |-> 2, height |-> 2]} ELSE {})
  \cup (IF wordLength = 9 THEN {[width |-> 3, height |-> 3]} ELSE {})
  \cup (IF wordLength = 16 THEN {[width |-> 4, height |-> 4]} ELSE {})
  \cup (IF wordLength = 6
          THEN {[width |-> 2, height |-> 3], [width |-> 3, height |-> 2]} ELSE {})
  \cup (IF wordLength = 8
          THEN {[width |-> 2, height |-> 4], [width |-> 4, height |-> 2]} ELSE {})
  \cup (IF wordLength = 10
          THEN {[width |-> 2, height |-> 5], [width |-> 5, height |-> 2]} ELSE {})
  \cup (IF wordLength = 12
          THEN {[width |-> 2, height |-> 6], [width |-> 6, height |-> 2],
                [width |-> 3, height |-> 4], [width |-> 4, height |-> 3]} ELSE {})
  \cup (IF wordLength = 14
          THEN {[width |-> 2, height |-> 7], [width |-> 7, height |-> 2]} ELSE {})
  \cup (IF wordLength = 15
          THEN {[width |-> 3, height |-> 5], [width |-> 5, height |-> 3]} ELSE {})
  \cup (IF wordLength = 16
          THEN {[width |-> 2, height |-> 8], [width |-> 8, height |-> 2]} ELSE {})

(* Reading order: cell number k - 1 of the block is (k-1) div blockWidth,   *)
(* (k-1) mod blockWidth; at most wordLength cells are pushed.               *)
generateBlockPositions(startRow, startCol, blockWidth, blockHeight, wordLength) ==
  [k \in 1..(IF blockWidth * blockHeight < wordLength
               THEN blockWidth * blockHeight ELSE wordLength) |->
     <<startRow + ((k - 1) \div blockWidth), startCol + ((k - 1) % blockWidth)>>]

generateBlockPlacements(word, boardSize) ==
  { [type |-> "block",
     positions |->
       generateBlockPositions(startRow, startCol, block.width, block.height, Len(word))] :
      <<block, startRow, startCol>> \in
        { t \in getValidBlockDimensions(Len(word))
                  \X (0..(boardSize.height - 1)) \X (0..(boardSize.width - 1)) :
            /\ t[2] <= boardSize.height - t[1].height
            /\ t[3] <= boardSize.width - t[1].width } }

generatePossiblePlacements(word, alignment, boardSize) ==
  (IF "horizontal" \in alignment.lines
     THEN generateHorizontalPlacements(word, boardSize) ELSE {})
  \cup (IF "vertical" \in alignment.lines
          THEN generateVerticalPlacements(word, boardSize) ELSE {})
  \cup (IF "diagonal" \in alignment.lines
          THEN generateDiagonalPlacements(word, boardSize) ELSE {})
  \cup (IF "bendsStraight" \in alignment.lines
          THEN generateBendStraightPlacements(word, boardSize) ELSE {})
  \cup (IF "bendsDiagonal" \in alignment.lines
          THEN generateBendDiagonalPlacements(word, boardSize) ELSE {})
  \cup (IF "block" \in alignment.lines
          THEN generateBlockPlacements(word, boardSize) ELSE {})

----------------------------------------------------------------------------
(* Letter mapper.  Math.random makes getLetterForPosition a relation: the  *)
(* operator yields the set of letters one call can return.                 *)

(* Every order in which the letter indices idx can come out of a sort.     *)
RECURSIVE Orders(_)
Orders(idx) ==
  IF idx = {} THEN { << >> }
  ELSE UNION { { <<i>> \o rest : rest \in Orders(idx \ {i}) } : i \in idx }

(* word.split('').sort(() => Math.random() - 0.5).join(''): a sort whose    *)
(* comparator answers at random leaves some permutation of the letters.    *)
Shuffles(word) ==
  { [k \in 1..Len(word) |-> word[p[k]]] : p \in Orders(1..Len(word)) }

getLetterForPosition(word, index, direction) ==
  CASE direction = "forward" -> {word[index + 1]}
    [] direction = "backward" -> {word[(Len(word) - 1 - index) + 1]}
    [] direction = "forwardBackward" ->
         {word[index + 1], word[(Len(word) - 1 - index) + 1]}
    [] direction = "scatter" ->
         {shuffledWord[index + 1] : shuffledWord \in Shuffles(word)}
    [] OTHER -> {word[index + 1]}

(* The outcomes of one pass over n positions: one independent call of      *)
(* getLetterForPosition per index 0..n-1.                                   *)
LetterDraws(word, n, direction) ==
  LET returns == [k \in 1..n |-> getLetterForPosition(word, k - 1, direction)]
  IN  { s \in [1..n -> Range(word)] : \A k \in 1..n : s[k] \in returns[k] }

----------------------------------------------------------------------------
(* Board store                                                             *)

Cells(boardSize) ==
  (0..(boardSize.height - 1)) \X (0..(boardSize.width - 1))

createEmptyBoard(boardSize) == [c \in Cells(boardSize) |-> ""]

(* letters[k] is the value getLetterForPosition returned for index k - 1   *)
(* inside the loop of canPlaceWord.                                         *)
canPlaceWord(b, placement, letters) ==
  \A k \in 1..Len(placement.positions) :
    ~ (b[placement.positions[k]] # "" /\ b[placement.positions[k]] # letters[k])

(* The loop assigns in index order, so the last write to a cell stays.     *)
placeWord(b, placement, letters) ==
  [c \in DOMAIN b |->
     IF \E k \in 1..Len(placement.positions) : placement.positions[k] = c
       THEN letters[CHOOSE k \in 1..Len(placement.positions) :
                      /\ placement.positions[k] = c
                      /\ \A j \in 1..Len(placement.positions) :
                           placement.positions[j] = c => j <= k]
       ELSE b[c]]

----------------------------------------------------------------------------
(* Generator                                                               *)

maxAttempts == 100

(* Variant: the list of refused lengths misses one.                        *)
invalidLengthsWithout5 == {3, 7, 11, 13}

invalidLengths == {3, 5, 7, 11, 13}

(* Variant: only the width is type-checked.                                *)
validateInputsWidthOnly(in) ==
  IF \/ ~ in.boardSize.defined
     \/ typeof(in.boardSize.width) # "number"
    THEN "boardSize must be an object with numeric width and height properties"
  ELSE IF ~ in.words.isArray
    THEN "words must be an array"
  ELSE IF \/ ~ in.alignment.defined
          \/ ~ in.alignment.linesDefined
          \/ typeof(in.alignment.direction) # "string"
    THEN "alignment must have lines object and direction string"
  ELSE IF /\ "block" \in in.alignment.lines
          /\ \E k \in 1..Len(in.words.items) :
               Len(in.words.items[k]) \in invalidLengths
    THEN "invalid length for block mode"
  ELSE ""

(* The message validateInputs throws, "" when it returns normally.         *)
validateInputs(in) ==
  IF \/ ~ in.boardSize.defined
     \/ typeof(in.boardSize.width) # "number"
     \/ typeof(in.boardSize.height) # "number"
    THEN "boardSize must be an object with numeric width and height properties"
  ELSE IF ~ in.words.isArray
    THEN "words must be an array"
  ELSE IF \/ ~ in.alignment.defined
          \/ ~ in.alignment.linesDefined
          \/ typeof(in.alignment.direction) # "string"
    THEN "alignment must have lines object and direction string"
  ELSE IF /\ "block" \in in.alignment.lines
          /\ \E k \in 1..Len(in.words.items) :
               Len(in.words.items[k]) \in invalidLengths
    THEN "invalid length for block mode"
  ELSE ""

BoardSizeOf(in) ==
  [width |-> in.boardSize.width.n, height |-> in.boardSize.height.n]

AlignmentOf(in) ==
  [lines |-> in.alignment.lines, direction |-> in.alignment.direction.s]

NoLast ==
  [kind |-> "none", word |-> 0, reason |-> "", attempts |-> 0, draws |-> 0,
   type |-> "", positions |-> <<>>, checked |-> <<>>, written |-> <<>>]

(* Variant: the loop condition is off by one.                              *)
LoopContinuesOnceMore(a) == a <= maxAttempts

LoopContinues(a) == a < maxAttempts

CurrentWord == input.words.items[wordIdx]

InPlaceWordOnBoard ==
  /\ pc = "place"
  /\ wordIdx <= Len(input.words.items)

(* generateWordsOnBoard line 14: validateInputs throws.                     *)
ValidateThrows ==
  /\ pc = "validate"
  /\ validateInputs(input) # ""
  /\ pc' = "error"
  /\ UNCHANGED <<input, created, board, wordIdx, attempts, draws, placements, last, results>>

(* generateWordsOnBoard line 14: validateInputs returns.                    *)
ValidateReturns ==
  /\ pc = "validate"
  /\ validateInputs(input) = ""
  /\ pc' = "create"
  /\ UNCHANGED <<input, created, board, wordIdx, attempts, draws, placements, last, results>>

(* generateWordsOnBoard line 17.                                            *)
CreateBoard ==
  /\ pc = "create"
  /\ board' = createEmptyBoard(BoardSizeOf(input))
  /\ created' = TRUE
  /\ pc' = "place"
  /\ wordIdx' = 1
  /\ attempts' = 0
  /\ draws' = 0
  /\ UNCHANGED <<input, placements, last, results>>

(* placeWordOnBoard returns; the for-of loop moves to the next word.  A     *)
(* failure records the counters a and d the call ended with; a success     *)
(* records the candidate, the letters canPlaceWord compared and the letters *)
(* placeWord wrote.                                                         *)
Return(success, reason, a, d, placement, checked, written) ==
  /\ last' = [kind |-> IF success THEN "placed" ELSE "failed",
              word |-> wordIdx, reason |-> reason, attempts |-> a, draws |-> d,
              type |-> placement.type, positions |-> placement.positions,
              checked |-> checked, written |-> written]
  /\ results' = Append(results, [word |-> CurrentWord, success |-> success])
  /\ wordIdx' = wordIdx + 1
  /\ attempts' = 0
  /\ draws' = 0

NoPlacement == [type |-> "", positions |-> <<>>]

(* Variant: an empty candidate list aborts the whole call.                  *)
NoValidPlacementsThrows ==
  /\ InPlaceWordOnBoard
  /\ LoopContinues(attempts)
  /\ placements' =
       generatePossiblePlacements(CurrentWord, AlignmentOf(input), BoardSizeOf(input))
  /\ placements' = {}
  /\ pc' = "error"
  /\ last' = [NoLast EXCEPT !.kind = "failed", !.word = wordIdx]
  /\ UNCHANGED <<input, created, board, wordIdx, attempts, draws, results>>

(* One loop iteration that finds the candidate list empty (lines 78-86).    *)
NoValidPlacements ==
  /\ InPlaceWordOnBoard
  /\ LoopContinues(attempts)
  /\ placements' =
       generatePossiblePlacements(CurrentWord, AlignmentOf(input), BoardSizeOf(input))
  /\ placements' = {}
  /\ Return(FALSE, "No valid placements found", attempts + 1, draws,
            NoPlacement, <<>>, <<>>)
  /\ UNCHANGED <<input, pc, created, board>>

(* One loop iteration whose drawn candidate canPlaceWord rejects.           *)
AttemptRejected ==
  /\ InPlaceWordOnBoard
  /\ LoopContinues(attempts)
  /\ placements' =
       generatePossiblePlacements(CurrentWord, AlignmentOf(input), BoardSizeOf(input))
  /\ \E placement \in placements' :
       \E checked \in LetterDraws(CurrentWord, Len(placement.positions),
                                  AlignmentOf(input).direction) :
         ~ canPlaceWord(board, placement, checked)
  /\ attempts' = attempts + 1
  /\ draws' = draws + 1
  /\ last' = NoLast
  /\ UNCHANGED <<input, pc, created, board, wordIdx, results>>

(* One loop iteration whose drawn candidate canPlaceWord accepts (lines     *)
(* 89-91).  The call is now certain to return success, so the counters are  *)
(* dead and are cleared here.                                               *)
AttemptAccepted ==
  /\ InPlaceWordOnBoard
  /\ LoopContinues(attempts)
  /\ placements' =
       generatePossiblePlacements(CurrentWord, AlignmentOf(input), BoardSizeOf(input))
  /\ \E placement \in placements' :
       \E checked \in LetterDraws(CurrentWord, Len(placement.positions),
                                  AlignmentOf(input).direction) :
         /\ canPlaceWord(board, placement, checked)
         /\ last' = [kind |-> "accepted", word |-> wordIdx, reason |-> "",
                     attempts |-> 0, draws |-> 0, type |-> placement.type,
                     positions |-> placement.positions,
                     checked |-> checked, written |-> <<>>]
  /\ pc' = "write"
  /\ attempts' = 0
  /\ draws' = 0
  /\ UNCHANGED <<input, created, board, wordIdx, results>>

(* placeWord writes the accepted candidate, calling getLetterForPosition   *)
(* anew for every index, and placeWordOnBoard returns success (lines 92-93).*)
PlaceWord ==
  /\ pc = "write"
  /\ \E written \in LetterDraws(CurrentWord, Len(last.positions),
                                 AlignmentOf(input).direction) :
       /\ board' = placeWord(board, last, written)
       /\ Return(TRUE, "", 0, 0, last, last.checked, written)
  /\ pc' = "place"
  /\ UNCHANGED <<input, created, placements>>

(* The while condition fails: line 97.                                      *)
MaxAttemptsExceeded ==
  /\ InPlaceWordOnBoard
  /\ ~ LoopContinues(attempts)
  /\ Return(FALSE, "Could not find valid placement after maximum attempts",
            attempts, draws, NoPlacement, <<>>, <<>>)
  /\ UNCHANGED <<input, pc, created, board, placements>>

(* The for-of loop is exhausted: return board (line 27).                    *)
ReturnBoard ==
  /\ pc = "place"
  /\ wordIdx > Len(input.words.items)
  /\ pc' = "done"
  /\ last' = NoLast
  /\ UNCHANGED <<input, created, board, wordIdx, attempts, draws, placements, results>>

Next ==
  \/ ValidateThrows
  \/ ValidateReturns
  \/ CreateBoard
  \/ NoValidPlacements
  \/ AttemptRejected
  \/ AttemptAccepted
  \/ PlaceWord
  \/ MaxAttemptsExceeded
  \/ ReturnBoard

----------------------------------------------------------------------------
(* Inputs                                                                  *)

WordLists(pool, n) == UNION { [1..k -> pool] : k \in 0..n }

WellFormed(boardSize, words, lines, direction) ==
  [boardSize |-> [defined |-> TRUE, width |-> Num(boardSize.width),
                  height |-> Num(boardSize.height)],
   words |-> [isArray |-> TRUE, items |-> words],
   alignment |-> [defined |-> TRUE, linesDefined |-> TRUE, lines |-> lines,
                  direction |-> Str(direction)]]

Start ==
  /\ pc = "validate"
  /\ created = FALSE
  /\ board = << >>
  /\ wordIdx = 0
  /\ attempts = 0
  /\ draws = 0
  /\ placements = {}
  /\ last = NoLast
  /\ results = << >>

(* Placement runs: well-formed calls on small boards.                       *)
Init ==
  /\ input \in
       { WellFormed([width |-> w, height |-> h], ws, ls, d) :
           w \in 1..MaxWidth, h \in 1..MaxHeight,
           ws \in WordLists(WordPool, MaxWords),
           ls \in LineSets, d \in Directions }
  /\ Start

Spec == Init /\ [][Next]_vars

----------------------------------------------------------------------------------------------------------------------------------------------------
(* Argument runs: calls with missing or ill-typed arguments, non-positive   *)
(* sizes, an empty shape set, an unknown direction, and word lengths that   *)
(* block mode refuses; the shapes are horizontal and block.                 *)

Letters(n) == [k \in 1..n |-> "A"]

ArgWordPool ==
  { <<"A", "B">>, <<"B", "A">>, <<"A", "B", "A">> }
  \cup { Letters(n) : n \in {4, 5, 7, 11, 13} }

ArgBoardSizes ==
  { [defined |-> FALSE, width |-> NotANumber, height |-> NotANumber] }
  \cup
  { [defined |-> TRUE, width |-> w, height |-> h] :
      w \in { Num(n) : n \in (0 - 1)..MaxArgWidth } \cup {NotANumber},
      h \in { Num(n) : n \in (0 - 1)..MaxArgHeight } \cup {NotANumber} }

ArgWords ==
  { [isArray |-> FALSE, items |-> << >>] }
  \cup
  { [isArray |-> TRUE, items |-> ws] : ws \in WordLists(ArgWordPool, MaxWords) }

ArgAlignments ==
  { [defined |-> FALSE, linesDefined |-> FALSE, lines |-> {},
     direction |-> NotAString],
    [defined |-> TRUE, linesDefined |-> FALSE, lines |-> {},
     direction |-> Str("forward")] }
  \cup
  { [defined |-> TRUE, linesDefined |-> TRUE, lines |-> ls, direction |-> d] :
      ls \in SUBSET {"horizontal", "block"},
      d \in { Str(x) : x \in Directions \cup {"sideways"} } \cup {NotAString} }

InitArgs ==
  /\ input \in [boardSize : ArgBoardSizes, words : ArgWords,
                alignment : ArgAlignments]
  /\ Start

SpecArgs == InitArgs /\ [][Next]_vars

(* Validation runs: the same calls, followed through validateInputs and     *)
(* createEmptyBoard only, the two steps that precede the first word.        *)
NextValidate ==
  \/ ValidateThrows
  \/ ValidateReturns
  \/ CreateBoard

SpecValidate == InitArgs /\ [][NextValidate]_vars

----
(* Enumerator runs: generatePossiblePlacements applied to one word length,  *)
(* one board size and one shape set.                                        *)

Enumerate ==
  /\ pc = "enumerate"
  /\ placements' =
       generatePossiblePlacements(CurrentWord, AlignmentOf(input), BoardSizeOf(input))
  /\ pc' = "enumerated"
  /\ UNCHANGED <<input, created, board, wordIdx, attempts, draws, last, results>>

NextEnum == Enumerate

InitEnum ==
  /\ input \in
       { WellFormed([width |-> w, height |-> h], << Letters(n) >>, ls, "forward") :
           w \in 1..MaxEnumWidth, h \in 1..MaxEnumHeight,
           n \in 1..MaxEnumLength, ls \in SUBSET Shapes }
  /\ pc = "enumerate"
  /\ created = FALSE
  /\ board = << >>
  /\ wordIdx = 1
  /\ attempts = 0
  /\ draws = 0
  /\ placements = {}
  /\ last = NoLast
  /\ results = << >>

SpecEnum == InitEnum /\ [][NextEnum]_vars

----------------------------------------------------------------------------
(* Vocabulary of the properties                                            *)

Words == input.words.items
Lines == input.alignment.lines
Direction == input.alignment.direction.s

Reverse(w) == [k \in 1..Len(w) |-> w[Len(w) + 1 - k]]

(* The board cells of a placement, read in position order.                  *)
CellsRead(positions) == [k \in 1..Len(positions) |-> board[positions[k]]]

OnBoard(pos, boardSize) ==
  /\ 0 <= pos[1] /\ pos[1] < boardSize.height
  /\ 0 <= pos[2] /\ pos[2] < boardSize.width

AllOnBoard(positions, boardSize) ==
  \A k \in 1..Len(positions) : OnBoard(positions[k], boardSize)

NothingStarted ==
  /\ pc \in {"validate", "error"}
  /\ ~ created
  /\ results = << >>
  /\ last = NoLast

TypeDefect(in) ==
  \/ ~ in.boardSize.defined
  \/ typeof(in.boardSize.width) # "number"
  \/ typeof(in.boardSize.height) # "number"
  \/ ~ in.alignment.defined
  \/ ~ in.alignment.linesDefined
  \/ typeof(in.alignment.direction) # "string"

NonPositiveSize(in) ==
  \/ typeof(in.boardSize.width) = "number" /\ in.boardSize.width.n <= 0
  \/ typeof(in.boardSize.height) = "number" /\ in.boardSize.height.n <= 0

NoShapeEnabled(in) == in.alignment.linesDefined /\ in.alignment.lines = {}

UnknownDirection(in) ==
  /\ typeof(in.alignment.direction) = "string"
  /\ in.alignment.direction.s \notin Directions

BlockWithRefusedLength(in) ==
  /\ in.alignment.defined
  /\ in.alignment.linesDefined
  /\ "block" \in in.alignment.lines
  /\ in.words.isArray
  /\ \E k \in 1..Len(in.words.items) : Len(in.words.items[k]) \in {3, 5, 7, 11, 13}

----------------------------------------------------------------------------
(* C1: once a board cell holds a letter, no later write changes that cell   *)
(* to another letter or back to empty.                                      *)
C1_LettersNeverOverwritten ==
  [][created =>
       \A c \in DOMAIN board : board[c] # "" => board'[c] = board[c]]_vars

(* C2: with direction forward, right after a word is placed the cells at    *)
(* its placement positions, read in position order, spell the whole word.   *)
C2_ForwardSpellsWord ==
  (last.kind = "placed" /\ Direction = "forward")
    => CellsRead(last.positions) = Words[last.word]

(* C3: with horizontal the only enabled shape, every candidate drawn is a   *)
(* horizontal one and a placed word of length n occupies the n cells        *)
(* (row, col), ..., (row, col + n - 1) of one row, col + n <= width, in     *)
(* increasing column order.                                                 *)
C3_HorizontalOnly ==
  Lines = {"horizontal"} =>
    /\ \A p \in placements : p.type = "horizontal"
    /\ last.kind \in {"accepted", "placed"} =>
         /\ last.type = "horizontal"
         /\ Len(last.positions) = Len(Words[last.word])
         /\ \E row \in 0..(BoardSizeOf(input).height - 1),
               col \in 0..(BoardSizeOf(input).width - Len(Words[last.word])) :
              \A k \in 1..Len(Words[last.word]) :
                last.positions[k] = <<row, col + (k - 1)>>
    /\ last.kind = "placed" =>
         \A k \in 1..Len(last.positions) : board[last.positions[k]] # ""

C3_Witness ==
  /\ Lines = {"horizontal"}
  /\ last.kind = "placed"
  /\ Len(Words[last.word]) = 2
  /\ last.positions = << <<1, 1>>, <<1, 2>> >>
  /\ BoardSizeOf(input).width = 3

(* C4 as stated: a non-positive width or height, an empty shape set or an   *)
(* unrecognised direction makes the call fail before a board exists.        *)
C4_ConfigurationRejected ==
  (NonPositiveSize(input) \/ NoShapeEnabled(input) \/ UnknownDirection(input))
    => NothingStarted

(* C4 amended: the call fails before a board exists and before any word is  *)
(* attempted whenever boardSize is missing or its width or height is not a  *)
(* number, or alignment or alignment.lines is missing, or the direction is  *)
(* not a string; a non-positive size, an empty shape set and an             *)
(* unrecognised direction string alone do not make it fail.                 *)
C4_TypeErrorsRejected ==
  /\ TypeDefect(input) => NothingStarted
  /\ (/\ ~ TypeDefect(input)
      /\ input.words.isArray
      /\ ~ BlockWithRefusedLength(input)) => pc # "error"

C4_Witness ==
  /\ pc = "error"
  /\ input.boardSize.defined
  /\ typeof(input.boardSize.width) = "number"
  /\ typeof(input.boardSize.height) # "number"
  /\ input.words.isArray
  /\ input.alignment.linesDefined
  /\ typeof(input.alignment.direction) = "string"

(* C5: with block enabled and a word of length 3, 5, 7, 11 or 13 anywhere   *)
(* in the list, the call fails before the board is allocated and before     *)
(* any word is placed.                                                      *)
C5_BlockLengthsRejected ==
  BlockWithRefusedLength(input) => NothingStarted

C5_Witness ==
  /\ pc = "error"
  /\ ~ TypeDefect(input)
  /\ Lines = {"horizontal", "block"}
  /\ Len(Words) = 2
  /\ Len(Words[1]) = 2
  /\ Len(Words[2]) = 13

(* C6: placeWordOnBoard draws at most 100 candidates: every iteration so    *)
(* far drew one candidate that was rejected, a candidate is accepted only   *)
(* at a draw numbered at most 100, the call fails with 100 rejected draws   *)
(* when the loop runs out, and it fails without a draw when the candidate   *)
(* list is empty.                                                           *)
C6_BoundedRetry ==
  /\ [](/\ attempts \in 0..maxAttempts
        /\ draws = attempts
        /\ (last.kind = "failed" /\ last.reason = "No valid placements found")
             => (last.draws = 0 /\ last.attempts = 1)
        /\ (last.kind = "failed" /\ last.reason # "No valid placements found")
             => (last.draws = maxAttempts /\ last.attempts = maxAttempts))
  /\ [][(pc = "place" /\ pc' = "write") => draws + 1 <= maxAttempts]_vars

C6_Witness ==
  /\ last.kind = "failed"
  /\ last.reason = "Could not find valid placement after maximum attempts"
  /\ last.draws = maxAttempts

(* C7: with bendsStraight enabled, for every start cell and bend point the  *)
(* horizontal-then-vertical placement is emitted exactly when all of its    *)
(* positions lie on the board, and likewise the vertical-then-horizontal    *)
(* placement.                                                               *)
C7_EveryOnBoardBendEmitted ==
  (pc = "enumerated" /\ "bendsStraight" \in Lines) =>
    \A startRow \in 0..(BoardSizeOf(input).height - 1),
       startCol \in 0..(BoardSizeOf(input).width - 1),
       bendPoint \in 1..(Len(Words[1]) - 1) :
      /\ AllOnBoard(BendHVPositions(startRow, startCol, bendPoint, Len(Words[1])),
                    BoardSizeOf(input))
           <=> [type |-> "bend-straight-hv",
                positions |-> BendHVPositions(startRow, startCol, bendPoint,
                                              Len(Words[1]))] \in placements
      /\ AllOnBoard(BendVHPositions(startRow, startCol, bendPoint, Len(Words[1])),
                    BoardSizeOf(input))
           <=> [type |-> "bend-straight-vh",
                positions |-> BendVHPositions(startRow, startCol, bendPoint,
                                              Len(Words[1]))] \in placements

(* C8: with forwardBackward or scatter the letters placeWord writes are the *)
(* letters canPlaceWord compared, so the cells of a placed word spell the   *)
(* word or its reverse (forwardBackward) or a permutation of it (scatter).  *)
C8_OneArrangementPerPlacement ==
  (last.kind = "placed" /\ Direction \in {"forwardBackward", "scatter"}) =>
    /\ last.written = last.checked
    /\ Direction = "forwardBackward" =>
         CellsRead(last.positions) \in {Words[last.word], Reverse(Words[last.word])}
    /\ Direction = "scatter" =>
         CellsRead(last.positions) \in Shuffles(Words[last.word])

(* C9: every position of every candidate generatePossiblePlacements returns *)
(* has 0 <= row < height and 0 <= col < width.                              *)
C9_CandidatesOnBoard ==
  pc = "enumerated" =>
    \A p \in placements : AllOnBoard(p.positions, BoardSizeOf(input))

C9_Witness ==
  /\ pc = "enumerated"
  /\ Lines = Shapes
  /\ \E p \in placements :
       /\ p.type = "block"
       /\ p.positions[Len(p.positions)] =
            <<BoardSizeOf(input).height - 1, BoardSizeOf(input).width - 1>>
  /\ \E p \in placements :
       /\ p.type = "bend-straight-hv"
       /\ p.positions[2][1] = p.positions[1][1]
       /\ p.positions[Len(p.positions)][1] = BoardSizeOf(input).height - 1
  /\ \E p \in placements : p.type = "diagonal-up" /\ p.positions[Len(p.positions)][2] = 0

====
